---------------------------- MODULE Spec2Model ----------------------------
(* A model of josebalius/thoughts: the two-slot sync engine of site.go   *)
(* (site.Serve, site.syncRepos, site.ServeHTTP, repo.Sync and the        *)
(* extraction and indexing of documents), the memoised rendering of      *)
(* document.go and the caching decorator of ghclient.go.                 *)
(*                                                                       *)
(* Go strings and byte slices are sequences of tokens: "notes/today.md"  *)
(* is <<"notes", "/", "today", ".md">>.                                  *)
EXTENDS Naturals, Sequences, FiniteSets, TLC

VARIABLES
    activeRepo,   \* site.activeRepo: "A" (versionA) or "B" (versionB)
    repos,        \* versionA, versionB: the fields hash, index, documents
    remote,       \* the remote project: an index into RemoteStates
    cancelled,    \* ctx.Done() of the context Serve hands to its goroutines
    servePc,      \* where site.Serve is
    loopPc,       \* where site.syncRepos is
    loopErr,      \* TRUE when syncRepos returned an error
    server,       \* the http.Server: "off", "up", "failed", "closed"
    sync,         \* the repo.Sync call in progress (at most one)
    req,          \* the ServeHTTP call in progress
    hist,         \* what earlier calls saw, recorded for the properties
    count,        \* the ticks, remote changes and requests so far
    doc,          \* one document: contents and cache
    calls,        \* the Render calls on doc
    transforms,   \* how often the markdown transformation ran on doc
    returned,     \* the Render calls on doc that returned, and the last bytes
    disk,         \* the cache directory of cachedGitHubClient
    live,         \* the wrapped githubClient: the tree it serves
    liveCalls,    \* calls made to the wrapped client: LastHash and Contents
    last          \* the last call of the decorator and what it returned

siteVars == <<activeRepo, repos, remote, cancelled, servePc, loopPc, loopErr,
              server, sync, req, hist, count>>
docVars == <<doc, calls, transforms, returned>>
cacheVars == <<disk, live, liveCalls, last>>
vars == <<siteVars, docVars, cacheVars>>

-----------------------------------------------------------------------------
(* Strings *)

\* strings.HasSuffix
HasSuffix(s, suffix) ==
    /\ Len(s) >= Len(suffix)
    /\ SubSeq(s, Len(s) - Len(suffix) + 1, Len(s)) = suffix

\* strings.TrimSuffix: s without the suffix, once, when it ends in it
TrimSuffix(s, suffix) ==
    IF HasSuffix(s, suffix) THEN SubSeq(s, 1, Len(s) - Len(suffix)) ELSE s

\* filepath.Separator
Separator == "/"

\* strings.Split(s, sep): the pieces of s between the separators, at least one
RECURSIVE Split(_, _)
Split(s, sep) ==
    IF \E i \in 1..Len(s) : s[i] = sep
    THEN LET i == CHOOSE k \in 1..Len(s) :
                      s[k] = sep /\ \A j \in 1..(k - 1) : s[j] # sep
         IN <<SubSeq(s, 1, i - 1)>> \o Split(SubSeq(s, i + 1, Len(s)), sep)
    ELSE <<s>>

\* strings.Join(parts, sep)
RECURSIVE Join(_, _)
Join(parts, sep) ==
    IF Len(parts) = 0 THEN <<>>
    ELSE IF Len(parts) = 1 THEN parts[1]
    ELSE parts[1] \o <<sep>> \o Join(Tail(parts), sep)

\* p[1:] of a slice
Rest(p) == SubSeq(p, 2, Len(p))

\* No fingerprint seen
NoHash == <<"-">>

MD == <<".md">>
README == <<"README", ".md">>

\* fs.DirEntry.Name(): the last element of the path
BaseName(path) == LET p == Split(path, Separator) IN p[Len(p)]

-----------------------------------------------------------------------------
(* Documents *)

\* A *document that is nil
NilDoc == [isNil |-> TRUE, path |-> <<>>, contents |-> <<>>]

\* linkRE.ReplaceAllString(contents, `$1$2`): in every link [text](./target.md)
\* the .md before the closing parenthesis is dropped; text and target are one
\* token each
RECURSIVE RewriteLinks(_)
RewriteLinks(s) ==
    IF Len(s) < 7 THEN s
    ELSE IF /\ s[1] = "[" /\ s[2] # "]" /\ s[3] = "](" /\ s[4] = "./"
            /\ s[5] # ")" /\ s[6] = ".md" /\ s[7] = ")"
         THEN SubSeq(s, 1, 5) \o <<")">> \o RewriteLinks(SubSeq(s, 8, Len(s)))
         ELSE <<s[1]>> \o RewriteLinks(Tail(s))

newDocument(path, contents) ==
    [isNil |-> FALSE, path |-> path, contents |-> RewriteLinks(contents)]

\* A []byte: nil, or the bytes it holds
NilSlice == [isNil |-> TRUE, data |-> <<>>]

Slice(data) == [isNil |-> FALSE, data |-> data]

\* markdown.Render(p.Parse(contents), renderer): the bytes of a bytes.Buffer,
\* which are nil when nothing was written, as for a document without blocks
MarkdownRender(contents) ==
    IF contents = <<>> THEN NilSlice
    ELSE Slice(<<"<p>">> \o contents \o <<"</p>">>)

\* d.cache != nil
Cached(d) == ~ d.cache.isNil

\* The goroutines that call Render on the document
Renderers == {"r1", "r2"}

\* Render calls on the document in one run
MaxRenders == 3

\* The Render calls that have returned: how many, the bytes of the last one,
\* and whether two calls have ever overlapped
NoReturn == [n |-> 0, bytes |-> NilSlice, overlap |-> FALSE]

NoCall == [pc |-> "idle", val |-> NilSlice, ret |-> NilSlice, ran |-> FALSE,
           after |-> FALSE]

-----------------------------------------------------------------------------
(* The remote project *)

File(path, contents) == [path |-> path, contents |-> contents]

\* Trees as fs.WalkDir visits them: files only, in lexical order
TreeHello ==
    << File(<<"w", "/", "README", ".md">>, <<"Hello">>),
       File(<<"w", "/", "notes", "/", "today", ".md">>,
            <<"See", "[", "link", "](", "./", "other", ".md", ")">>),
       File(<<"w", "/", "pic", ".png">>, <<"png">>) >>

TreeNoIndex ==
    << File(<<"w", "/", "notes", "/", "other", ".md">>, <<"Other">>) >>

TreeTwoRoots ==
    << File(<<"a", "/", "README", ".md">>, <<"One">>),
       File(<<"a", "/", "x", ".md">>, <<"X1">>),
       File(<<"b", "/", "README", ".md">>, <<"Two">>),
       File(<<"b", "/", "x", ".md">>, <<"X2">>) >>

TreeNew ==
    << File(<<"w", "/", "README", ".md">>, <<"New">>),
       File(<<"w", "/", "empty", ".md">>, <<>>) >>

\* The states the remote project goes through: the fingerprint LastHash
\* returns (response[0].After, which may be empty) and the tree of the zipball
RemoteStates ==
    << [hash |-> <<"h1">>, tree |-> TreeHello],
       [hash |-> <<"h2">>, tree |-> TreeNoIndex],
       [hash |-> <<>>,     tree |-> TreeNew],
       [hash |-> <<"h3">>, tree |-> TreeTwoRoots] >>

Remotes == 1..Len(RemoteStates)

\* Ticks of the refresh loop's ticker in one run
MaxTicks == 2

\* Changes of the remote project in one run
MaxChanges == 1

\* Requests served in one run
MaxRequests == 1

-----------------------------------------------------------------------------
(* cachedGitHubClient *)

\* const cacheDir, under the working directory: c.destRoot
DestRoot == <<"wd", "/", "cache">>

\* filepath.Join(c.destRoot, path)
DestPath(path) == DestRoot \o <<Separator>> \o path

\* The files of a tree, as a set
FilesOf(tree) == {tree[i] : i \in 1..Len(tree)}

\* The disk: whether c.destRoot exists, and the files below it
NoDisk == [exists |-> FALSE, files |-> {}]

\* A cacheExists that takes an empty directory for no cache
cacheExistsNonEmpty(d) == d.exists /\ d.files # {}

\* c.cacheExists: os.Stat(c.destRoot) succeeds
cacheExists(d) == d.exists

\* fs.Sub(os.DirFS(root), cacheDir): the files below c.destRoot, by the path
\* from it
CacheView(d) ==
    { File(SubSeq(f.path, Len(DestRoot) + 2, Len(f.path)), f.contents) :
          f \in {g \in d.files : /\ Len(g.path) > Len(DestRoot) + 1
                                  /\ SubSeq(g.path, 1, Len(DestRoot)) = DestRoot} }

\* The walk of cachedGitHubClient.Contents over the first n files of the tree:
\* os.Create(destPath) and io.Copy(dstFile, srcFile) for each
Persisted(tree, n) ==
    {File(DestPath(tree[i].path), tree[i].contents) : i \in 1..n}

\* "cached-hash"
CachedHash == <<"cached-hash">>

\* Calls of the decorator in one run
MaxCacheCalls == 3

\* The last call of the decorator: whether c.destRoot existed when it was made,
\* what it returned, how many calls of the wrapped client it made, whether
\* the wrapped client returned an error, and what became of the cleanup
\* function of the wrapped client's Contents: whether the call got one,
\* returned it to its caller, or called it
NoLast ==
    [op |-> "none", n |-> 0, existed |-> FALSE, err |-> FALSE,
     liveErr |-> FALSE, hash |-> NoHash, view |-> {}, liveCalls |-> 0,
     pull |-> <<>>, pulled |-> FALSE,
     gotCleanup |-> FALSE, returnedCleanup |-> FALSE, calledCleanup |-> FALSE]

-----------------------------------------------------------------------------
(* repo *)

Slots == {"A", "B"}

\* newRepo: no hash, no index, an empty map
newRepo == [hash |-> <<>>, index |-> NilDoc, documents |-> [p \in {} |-> NilDoc]]

\* repo.Index
Index(r) == r.index

\* repo.Document: the zero value of a missing key is nil
Document(r, path) ==
    IF path \in DOMAIN r.documents THEN r.documents[path] ELSE NilDoc

\* The walk function of extractDocuments keeps README.md and *.md
IsDocumentFile(f) ==
    ~ (BaseName(f.path) # README /\ ~ HasSuffix(BaseName(f.path), MD))

\* The logical path: the path without its first element
LogicalPath(path) == Join(Rest(Split(path, Separator)), Separator)

\* repo.extractDocuments: one document per kept file, in walk order
RECURSIVE extractDocuments(_)
extractDocuments(tree) ==
    IF Len(tree) = 0 THEN <<>>
    ELSE IF IsDocumentFile(tree[1])
         THEN <<newDocument(LogicalPath(tree[1].path), tree[1].contents)>>
              \o extractDocuments(Tail(tree))
         ELSE extractDocuments(Tail(tree))

\* documents[p] = d
Put(m, k, v) == [x \in (DOMAIN m) \cup {k} |-> IF x = k THEN v ELSE m[x]]

\* An indexing in which the first document at a path wins
IndexOneFirstWins(r, d) ==
    IF d.path = README
    THEN (IF r.index.isNil THEN [r EXCEPT !.index = d] ELSE r)
    ELSE IF TrimSuffix(d.path, MD) \in DOMAIN r.documents THEN r
         ELSE [r EXCEPT !.documents = Put(r.documents, TrimSuffix(d.path, MD), d)]

\* One iteration of the loop of repo.indexDocuments, on the repo itself
IndexOne(r, d) ==
    IF d.path = README
    THEN [r EXCEPT !.index = d]
    ELSE [r EXCEPT !.documents = Put(r.documents, TrimSuffix(d.path, MD), d)]

\* The check that ends repo.indexDocuments: TRUE when it returns an error
IndexMissing(r) == r.index.isNil

-----------------------------------------------------------------------------
(* repo.Sync, one step at a time *)

NoSync ==
    [pc |-> "none", slot |-> "A", caller |-> "none", hash |-> NoHash,
     tree |-> <<>>, docs |-> <<>>, i |-> 0, err |-> FALSE, pulled |-> FALSE,
     contentsCalls |-> 0, cleanups |-> 0, before |-> newRepo,
     prevSeen |-> NoHash, prevCalls |-> 0]

\* The call r.Sync(ctx) on a slot begins
BeginSync(slot, caller) ==
    [NoSync EXCEPT !.pc = "lasthash", !.slot = slot, !.caller = caller,
                   !.before = repos[slot], !.prevSeen = hist.lastSeen[slot],
                   !.prevCalls = hist.lastCalls[slot]]

\* repo.Sync returns
Return(s, err) == [s EXCEPT !.pc = "ret", !.err = err]

\* A Sync that calls cleanup() on its nil return only, not in a defer
ReturnCleanupOnSuccess(s, err) ==
    [s EXCEPT !.pc = "ret", !.err = err,
              !.cleanups = IF err THEN @ ELSE @ + 1]

\* The deferred cleanup() runs when Sync returns after Contents succeeded
ReturnCleanup(s, err) ==
    [s EXCEPT !.pc = "ret", !.err = err, !.cleanups = @ + 1]

\* hash == r.hash
HashUnchanged(hash, r) == hash = r.hash

\* hash, err := r.fp.LastHash(ctx), and the comparison with r.hash
SyncLastHash ==
    /\ sync.pc = "lasthash"
    /\ \E ok \in BOOLEAN :
          IF ~ ok
          THEN sync' = Return(sync, TRUE)
          ELSE LET hash == RemoteStates[remote].hash IN
               IF HashUnchanged(hash, repos[sync.slot])
               THEN sync' = Return([sync EXCEPT !.hash = hash], FALSE)
               ELSE sync' = [sync EXCEPT !.hash = hash, !.pc = "contents"]
    /\ UNCHANGED <<activeRepo, repos, remote, cancelled, servePc, loopPc,
                   loopErr, server, req, hist, count, docVars, cacheVars>>

\* repoFS, cleanup, err := r.fp.Contents(ctx)
SyncContents ==
    /\ sync.pc = "contents"
    /\ \E ok \in BOOLEAN :
          IF ~ ok
          THEN sync' = Return([sync EXCEPT !.contentsCalls = @ + 1], TRUE)
          ELSE sync' = [sync EXCEPT !.contentsCalls = @ + 1, !.pulled = TRUE,
                                    !.tree = RemoteStates[remote].tree,
                                    !.pc = "extract"]
    /\ UNCHANGED <<activeRepo, repos, remote, cancelled, servePc, loopPc,
                   loopErr, server, req, hist, count, docVars, cacheVars>>

\* docs, err := r.extractDocuments(repoFS): the walk or a read may fail
SyncExtract ==
    /\ sync.pc = "extract"
    /\ \E ok \in BOOLEAN :
          IF ~ ok
          THEN sync' = ReturnCleanup(sync, TRUE)
          ELSE sync' = [sync EXCEPT !.docs = extractDocuments(sync.tree),
                                    !.i = 1, !.pc = "index"]
    /\ UNCHANGED <<activeRepo, repos, remote, cancelled, servePc, loopPc,
                   loopErr, server, req, hist, count, docVars, cacheVars>>

\* One iteration of for _, d := range docs in r.indexDocuments(docs)
SyncIndexStep ==
    /\ sync.pc = "index"
    /\ sync.i <= Len(sync.docs)
    /\ repos' = [repos EXCEPT ![sync.slot] = IndexOne(@, sync.docs[sync.i])]
    /\ sync' = [sync EXCEPT !.i = @ + 1]
    /\ UNCHANGED <<activeRepo, remote, cancelled, servePc, loopPc, loopErr,
                   server, req, hist, count, docVars, cacheVars>>

\* The end of r.indexDocuments(docs) and of Sync
SyncIndexCheck ==
    /\ sync.pc = "index"
    /\ sync.i > Len(sync.docs)
    /\ sync' = ReturnCleanup(sync, IndexMissing(repos[sync.slot]))
    /\ UNCHANGED <<activeRepo, repos, remote, cancelled, servePc, loopPc,
                   loopErr, server, req, hist, count, docVars, cacheVars>>

\* What the caller of Sync remembers of the call that returned
Remember(h, s) ==
    [h EXCEPT !.lastSeen[s.slot] = IF s.err THEN NoHash ELSE s.hash,
              !.lastCalls[s.slot] = s.contentsCalls,
              !.running = @ - 1]

-----------------------------------------------------------------------------
(* site.Serve and site.syncRepos *)

Other(slot) == IF slot = "A" THEN "B" ELSE "A"

\* A refresh loop that syncs the slot that is s.activeRepo
SyncTargetActive(active) == active

\* switch s.activeRepo: the slot the refresh loop syncs
SyncTarget(active) == Other(active)

\* A Serve that ignores the error of the first Sync
ServeGoesOnAlways(err) == TRUE

\* What Serve does when the first Sync has returned: TRUE when it goes on
ServeGoesOn(err) == ~ err

\* A refresh loop that sets s.activeRepo whatever Sync returned
LoopFlipsAlways(err) == TRUE

\* What syncRepos does when Sync has returned: TRUE when it sets s.activeRepo
LoopFlips(err) == ~ err

\* A context whose Done channel is never closed
DoneNever(ctx) == FALSE

\* <-ctx.Done() can be received once the context is cancelled
Done(ctx) == ctx

\* A loop that takes a tick while the Sync of the tick before is running
TickReadyWhileSyncing(pc) == pc \in {"wait", "sync"}

\* The loop is at its select: a Sync it started has returned
TickReady(pc) == pc = "wait"

\* s.activeRepo.Sync(ctx), the first statement of Serve
ServeStart ==
    /\ servePc = "start"
    /\ servePc' = "sync"
    /\ sync' = BeginSync(activeRepo, "serve")
    /\ hist' = [hist EXCEPT !.running = @ + 1]
    /\ UNCHANGED <<activeRepo, repos, remote, cancelled, loopPc, loopErr,
                   server, req, count, docVars, cacheVars>>

\* The first Sync has returned: Serve returns its error, or starts the
\* refresh loop and the server (ListenAndServe may fail, and the errgroup then
\* cancels its context)
ServeAfterSync ==
    /\ servePc = "sync"
    /\ sync.pc = "ret"
    /\ sync.caller = "serve"
    /\ sync' = NoSync
    /\ IF ServeGoesOn(sync.err)
       THEN /\ servePc' = "serving"
            /\ loopPc' = "wait"
            /\ hist' = [Remember(hist, sync) EXCEPT
                           !.initSync = IF sync.err THEN "err" ELSE "ok"]
            /\ \E listening \in BOOLEAN :
                  /\ server' = IF listening THEN "up" ELSE "failed"
                  /\ cancelled' = (cancelled \/ ~ listening)
       ELSE /\ servePc' = "failed"
            /\ hist' = [Remember(hist, sync) EXCEPT !.initSync = "err"]
            /\ UNCHANGED <<loopPc, server, cancelled>>
    /\ UNCHANGED <<activeRepo, repos, remote, loopErr, req, count, docVars,
                   cacheVars>>

\* case <-ticker.C: the loop syncs the slot that is not s.activeRepo. A select
\* with several ready cases takes any of them, so a tick may be taken after
\* the context is done
Tick ==
    /\ TickReady(loopPc)
    /\ count.ticks < MaxTicks
    /\ count' = [count EXCEPT !.ticks = @ + 1]
    /\ loopPc' = "sync"
    /\ sync' = BeginSync(SyncTarget(activeRepo), "loop")
    /\ hist' = [hist EXCEPT !.tickActive = activeRepo,
                            !.tickSnap = repos[activeRepo],
                            !.attempt = "running",
                            !.running = @ + 1]
    /\ UNCHANGED <<activeRepo, repos, remote, cancelled, servePc, loopErr,
                   server, req, docVars, cacheVars>>

\* case <-ctx.Done(): return nil
LoopCancel ==
    /\ loopPc = "wait"
    /\ Done(cancelled)
    /\ loopPc' = "returned"
    /\ UNCHANGED <<activeRepo, repos, remote, cancelled, servePc, loopErr,
                   server, sync, req, hist, count, docVars, cacheVars>>

\* Sync of the inactive slot has returned: return the error, or set
\* s.activeRepo to the slot that was synced
LoopAfterSync ==
    /\ loopPc = "sync"
    /\ sync.pc = "ret"
    /\ sync.caller = "loop"
    /\ sync' = NoSync
    /\ hist' = [Remember(hist, sync) EXCEPT
                   !.attempt = IF sync.err THEN "failed" ELSE "ok"]
    /\ IF LoopFlips(sync.err)
       THEN /\ activeRepo' = sync.slot
            /\ loopPc' = "wait"
            /\ loopErr' = loopErr
       ELSE /\ loopPc' = "returned"
            /\ loopErr' = TRUE
            /\ activeRepo' = activeRepo
    /\ UNCHANGED <<repos, remote, cancelled, servePc, server, req, count, docVars,
                   cacheVars>>

\* The interrupt signal cancels the context
Cancel ==
    /\ ~ cancelled
    /\ servePc \in {"start", "sync", "serving"}
    /\ cancelled' = TRUE
    /\ UNCHANGED <<activeRepo, repos, remote, servePc, loopPc, loopErr, server,
                   sync, req, hist, count, docVars, cacheVars>>

\* <-ctx.Done(); server.Shutdown(shutdownctx)
ServerShutdown ==
    /\ server = "up"
    /\ Done(cancelled)
    /\ server' = "closed"
    /\ UNCHANGED <<activeRepo, repos, remote, cancelled, servePc, loopPc,
                   loopErr, sync, req, hist, count, docVars, cacheVars>>

\* g.Wait() returns when both goroutines have returned
ServeReturn ==
    /\ servePc = "serving"
    /\ loopPc = "returned"
    /\ server \in {"closed", "failed"}
    /\ servePc' = "returned"
    /\ UNCHANGED <<activeRepo, repos, remote, cancelled, loopPc, loopErr,
                   server, sync, req, hist, count, docVars, cacheVars>>

\* The remote project changes
RemoteChange ==
    /\ servePc \in {"start", "sync", "serving"}
    /\ count.changes < MaxChanges
    /\ count' = [count EXCEPT !.changes = @ + 1]
    /\ \E n \in Remotes \ {remote} : remote' = n
    /\ UNCHANGED <<activeRepo, repos, cancelled, servePc, loopPc, loopErr,
                   server, sync, req, hist, docVars, cacheVars>>

-----------------------------------------------------------------------------
(* site.ServeHTTP *)

\* The request paths tried
Paths ==
    { <<"/">>, <<"/", "notes", "/", "today">>, <<"/", "x">>,
      <<"/", "empty">>, <<"/", "missing">> }

\* strings.TrimPrefix(r.URL.Path, "/")
TrimSlash(path) == IF Len(path) > 0 /\ path[1] = "/" THEN Tail(path) ELSE path

NoReq ==
    [pc |-> "idle", path |-> <<>>, repo |-> "A", seen |-> newRepo,
     status |-> 0, doc |-> NilDoc]

\* The document a request resolves in the repo it read: the index for "/"
Resolve(r, path) ==
    IF path = <<"/">> THEN Index(r) ELSE Document(r, TrimSlash(path))

\* The status of the response: serving a nil index panics, and the deferred
\* recover answers 500
Status(path, d) ==
    IF ~ d.isNil THEN 200 ELSE IF path = <<"/">> THEN 500 ELSE 404

\* A request arrives and the handler reads s.activeRepo
ReqRead ==
    /\ server = "up"
    /\ req.pc = "idle"
    /\ count.requests < MaxRequests
    /\ count' = [count EXCEPT !.requests = @ + 1]
    /\ \E path \in Paths :
          req' = [NoReq EXCEPT !.pc = "read", !.path = path,
                               !.repo = activeRepo,
                               !.seen = repos[activeRepo]]
    /\ UNCHANGED <<activeRepo, repos, remote, cancelled, servePc, loopPc,
                   loopErr, server, sync, hist, docVars, cacheVars>>

\* The handler resolves the path in the repo it read, and answers
ReqResolve ==
    /\ req.pc = "read"
    /\ LET d == Resolve(repos[req.repo], req.path) IN
          req' = [req EXCEPT !.pc = "done", !.doc = d,
                             !.status = Status(req.path, d)]
    /\ UNCHANGED <<activeRepo, repos, remote, cancelled, servePc, loopPc,
                   loopErr, server, sync, hist, count, docVars, cacheVars>>

\* The handler has returned
ReqDone ==
    /\ req.pc = "done"
    /\ req' = NoReq
    /\ UNCHANGED <<activeRepo, repos, remote, cancelled, servePc, loopPc,
                   loopErr, server, sync, hist, count, docVars, cacheVars>>

-----------------------------------------------------------------------------
(* The site *)

NoCount == [ticks |-> 0, changes |-> 0, requests |-> 0]

NoHist ==
    [initSync |-> "pending", lastSeen |-> [s \in Slots |-> NoHash],
     lastCalls |-> [s \in Slots |-> 0], tickActive |-> "A",
     tickSnap |-> newRepo, attempt |-> "none", running |-> 0]

SiteIdle ==
    /\ activeRepo = "A"
    /\ repos = [s \in Slots |-> newRepo]
    /\ remote = 1
    /\ cancelled = FALSE
    /\ servePc = "off"
    /\ loopPc = "off"
    /\ loopErr = FALSE
    /\ server = "off"
    /\ sync = NoSync
    /\ req = NoReq
    /\ hist = NoHist
    /\ count = NoCount

DocIdle ==
    /\ doc = [contents |-> <<>>, cache |-> NilSlice]
    /\ calls = [c \in Renderers |-> NoCall]
    /\ transforms = 0
    /\ returned = NoReturn

CacheIdle ==
    /\ disk = NoDisk
    /\ live = [state |-> 1, changes |-> 0]
    /\ liveCalls = [lastHash |-> 0, contents |-> 0]
    /\ last = NoLast

\* newSite: activeRepo is versionA, both repos are new
Init ==
    /\ activeRepo = "A"
    /\ repos = [s \in Slots |-> newRepo]
    /\ remote \in Remotes
    /\ cancelled = FALSE
    /\ servePc = "start"
    /\ loopPc = "off"
    /\ loopErr = FALSE
    /\ server = "off"
    /\ sync = NoSync
    /\ req = NoReq
    /\ hist = NoHist
    /\ count = NoCount
    /\ DocIdle
    /\ CacheIdle

Next ==
    \/ ServeStart
    \/ SyncLastHash
    \/ SyncContents
    \/ SyncExtract
    \/ SyncIndexStep
    \/ SyncIndexCheck
    \/ ServeAfterSync
    \/ Tick
    \/ LoopCancel
    \/ LoopAfterSync
    \/ Cancel
    \/ ServerShutdown
    \/ ServeReturn
    \/ RemoteChange
    \/ ReqRead
    \/ ReqResolve
    \/ ReqDone

Spec == Init /\ [][Next]_vars

-----------------------------------------------------------------------------
(* Properties of the sync engine *)

\* The files of a tree that the extraction keeps
DocumentFiles(tree) == {i \in 1..Len(tree) : IsDocumentFile(tree[i])}

\* The files of a tree whose logical path is README.md
IndexFiles(tree) ==
    {i \in DocumentFiles(tree) : LogicalPath(tree[i].path) = README}

\* The path a file is routed at
RoutedPath(f) == TrimSuffix(LogicalPath(f.path), MD)

\* C1: when a Sync of a slot sees the fingerprint that the previous Sync of
\* the same slot saw, and that previous Sync returned nil, it does not call
\* Contents: the pull of the previous Sync is the only one of the two calls.
C1_SameFingerprintNoPull ==
    (sync.pc # "none" /\ sync.prevSeen # NoHash /\ sync.hash = sync.prevSeen)
        => sync.contentsCalls = 0

\* C2: between the moment a request has read s.activeRepo and the moment it
\* has resolved its document, the index and the documents of the repo it read
\* are what they were when it read the selector.
C2_RequestSeesStableSnapshot ==
    req.pc = "read"
        => /\ repos[req.repo].index = req.seen.index
           /\ repos[req.repo].documents = req.seen.documents

\* C3: after a Sync of the inactive slot by the refresh loop has returned an
\* error, s.activeRepo is the repo it was at the tick, and every path that
\* resolved in it at the tick resolves to the same document.
C3_FailedRefreshKeepsActive ==
    hist.attempt = "failed"
        => /\ activeRepo = hist.tickActive
           /\ repos[activeRepo].index = hist.tickSnap.index
           /\ \A p \in DOMAIN hist.tickSnap.documents :
                 Document(repos[activeRepo], p) = hist.tickSnap.documents[p]

\* A refresh failed while the active repo held an index and documents
C3_Witness ==
    /\ hist.attempt = "failed"
    /\ ~ hist.tickSnap.index.isNil
    /\ DOMAIN hist.tickSnap.documents # {}

\* C4: a failed Sync does not end the refresh loop: syncRepos has returned
\* only when the context is cancelled.
C4_LoopOutlivesFailure == loopPc = "returned" => cancelled

\* C5: the server and the refresh loop start, and a request is handled, only
\* when the first Sync has returned nil; when it has returned an error, Serve
\* has returned with no server and no refresh loop.
C5_InitialSyncFirst ==
    /\ (server # "off" \/ loopPc # "off" \/ req.pc # "idle")
          => hist.initSync = "ok"
    /\ hist.initSync = "err"
          => servePc = "failed" /\ server = "off" /\ loopPc = "off"

\* A request was answered
C5_Witness == req.pc = "done" /\ hist.initSync = "ok" /\ server = "up"

\* C6: a Sync that pulled a tree with no README.md returns an error (so that
\* the refresh loop does not make the slot active), on the first build of a
\* slot and on every rebuild of a slot that holds a snapshot.
C6_NoIndexIsError ==
    (sync.pc = "ret" /\ sync.pulled /\ IndexFiles(sync.tree) = {}) => sync.err

\* C7: when Sync returns an error, the hash, the index and the documents of
\* the slot are what they were when Sync was called.
C7_ErrorLeavesSlot ==
    (sync.pc = "ret" /\ sync.err) => repos[sync.slot] = sync.before

\* C8: when a Sync that pulled a tree returns nil, the slot's index is not nil
\* and has the contents of the pulled README.md, and every other .md file of
\* the tree is the document at its routed path.
C8_SyncedSnapshotHoldsTree ==
    (sync.pc = "ret" /\ sync.pulled /\ ~ sync.err)
        => LET r == repos[sync.slot] IN
           /\ ~ Index(r).isNil
           /\ \E i \in IndexFiles(sync.tree) :
                 Index(r).contents = sync.tree[i].contents
           /\ \A i \in DocumentFiles(sync.tree) \ IndexFiles(sync.tree) :
                 /\ ~ Document(r, RoutedPath(sync.tree[i])).isNil
                 /\ Document(r, RoutedPath(sync.tree[i])).contents
                       = sync.tree[i].contents

\* The last file of the tree, in walk order, that is routed where file i is
LastRouted(tree, i) ==
    CHOOSE j \in DocumentFiles(tree) \ IndexFiles(tree) :
        /\ RoutedPath(tree[j]) = RoutedPath(tree[i])
        /\ \A k \in DocumentFiles(tree) \ IndexFiles(tree) :
              RoutedPath(tree[k]) = RoutedPath(tree[i]) => k <= j

\* The last file of the tree, in walk order, whose logical path is README.md
LastIndex(tree) ==
    CHOOSE j \in IndexFiles(tree) : \A k \in IndexFiles(tree) : k <= j

\* C8, amended: when a Sync that pulled a tree returns nil, the slot's index is
\* not nil; when the tree has a README.md, the index is the document made of
\* the last one in walk order; every other .md file's routed path holds the
\* document made of the last file in walk order that is routed there; and a
\* document's contents are its file's contents with relative links rewritten.
C8_SyncedSnapshotHoldsLastFiles ==
    (sync.pc = "ret" /\ sync.pulled /\ ~ sync.err)
        => LET r == repos[sync.slot]
               tree == sync.tree
           IN
           /\ ~ Index(r).isNil
           /\ IndexFiles(tree) # {}
                 => Index(r) = newDocument(README, tree[LastIndex(tree)].contents)
           /\ \A i \in DocumentFiles(tree) \ IndexFiles(tree) :
                 LET j == LastRouted(tree, i) IN
                 Document(r, RoutedPath(tree[i]))
                     = newDocument(LogicalPath(tree[j].path), tree[j].contents)

\* A Sync returned nil after a pull in which two files are routed at one path
\* and one file holds a relative link
C8_Witness ==
    /\ sync.pc = "ret" /\ sync.pulled /\ ~ sync.err
    /\ \E i, j \in DocumentFiles(sync.tree) \ IndexFiles(sync.tree) :
          i # j /\ RoutedPath(sync.tree[i]) = RoutedPath(sync.tree[j])
    /\ Cardinality(IndexFiles(sync.tree)) > 1

-----------------------------------------------------------------------------
(* document.Render, one step at a time *)

\* The raw contents of the documents rendered
DocContents ==
    { <<>>, <<"Hello">>,
      RewriteLinks(<<"See", "[", "link", "](", "./", "other", ".md", ")">>) }

\* A goroutine calls d.Render()
RenderCall(c) ==
    /\ calls[c].pc = "idle"
    /\ returned.n + Cardinality({x \in Renderers : calls[x].pc # "idle"})
          < MaxRenders
    /\ calls' = [calls EXCEPT ![c] = [NoCall EXCEPT !.pc = "check",
                                                    !.after = returned.n > 0]]
    /\ returned' = [returned EXCEPT
                       !.overlap = @ \/ \E x \in Renderers \ {c} :
                                            calls[x].pc # "idle"]
    /\ UNCHANGED <<doc, transforms, siteVars, cacheVars>>

\* if d.cache != nil { return d.cache, nil }
RenderCheck(c) ==
    /\ calls[c].pc = "check"
    /\ calls' = [calls EXCEPT ![c] =
                    IF Cached(doc)
                    THEN [@ EXCEPT !.pc = "done", !.ret = doc.cache]
                    ELSE [@ EXCEPT !.pc = "transform"]]
    /\ UNCHANGED <<doc, transforms, returned, siteVars, cacheVars>>

\* p.Parse(d.contents) and markdown.Render(doc, renderer)
RenderTransform(c) ==
    /\ calls[c].pc = "transform"
    /\ calls' = [calls EXCEPT ![c] = [@ EXCEPT !.pc = "store", !.ran = TRUE,
                                       !.val = MarkdownRender(doc.contents)]]
    /\ transforms' = transforms + 1
    /\ UNCHANGED <<doc, returned, siteVars, cacheVars>>

\* d.cache = ...: the store of a slice, which is three words (pointer, length,
\* capacity). No lock or atomic orders it with the reads and stores of the
\* other goroutines, so the store is a data race: another goroutine sees it
\* whole, or sees the pointer of the new slice with the length that was there
\* (0 for the nil slice), which is a slice that is not nil and has no bytes
RenderStore(c) ==
    /\ calls[c].pc = "store"
    /\ \/ /\ doc' = [doc EXCEPT !.cache = calls[c].val]
          /\ calls' = [calls EXCEPT ![c] = [@ EXCEPT !.pc = "load"]]
       \/ /\ ~ calls[c].val.isNil
          /\ doc' = [doc EXCEPT !.cache = Slice(SubSeq(calls[c].val.data, 1,
                                                       Len(doc.cache.data)))]
          /\ calls' = [calls EXCEPT ![c] = [@ EXCEPT !.pc = "storeLen"]]
    /\ UNCHANGED <<transforms, returned, siteVars, cacheVars>>

\* The rest of a store that another goroutine saw in part: the length
RenderStoreLen(c) ==
    /\ calls[c].pc = "storeLen"
    /\ doc' = [doc EXCEPT !.cache = calls[c].val]
    /\ calls' = [calls EXCEPT ![c] = [@ EXCEPT !.pc = "load"]]
    /\ UNCHANGED <<transforms, returned, siteVars, cacheVars>>

\* return d.cache, nil
RenderLoad(c) ==
    /\ calls[c].pc = "load"
    /\ calls' = [calls EXCEPT ![c] = [@ EXCEPT !.pc = "done", !.ret = doc.cache]]
    /\ UNCHANGED <<doc, transforms, returned, siteVars, cacheVars>>

\* The caller has the bytes
RenderReturn(c) ==
    /\ calls[c].pc = "done"
    /\ returned' = [returned EXCEPT !.n = @ + 1, !.bytes = calls[c].ret]
    /\ calls' = [calls EXCEPT ![c] = NoCall]
    /\ UNCHANGED <<doc, transforms, siteVars, cacheVars>>

InitDoc ==
    /\ SiteIdle
    /\ CacheIdle
    /\ \E contents \in DocContents : doc = [contents |-> contents, cache |-> NilSlice]
    /\ calls = [c \in Renderers |-> NoCall]
    /\ transforms = 0
    /\ returned = NoReturn

NextDoc ==
    \E c \in Renderers :
        \/ RenderCall(c)
        \/ RenderCheck(c)
        \/ RenderTransform(c)
        \/ RenderStore(c)
        \/ RenderStoreLen(c)
        \/ RenderLoad(c)
        \/ RenderReturn(c)

SpecDoc == InitDoc /\ [][NextDoc]_vars

\* C9: when no two Render calls on the document overlap, a Render call made
\* after another has returned returns the bytes that call returned, and does
\* not run the markdown transformation; also for a document that renders to
\* nothing.
C9_SecondRenderCached ==
    \A c \in Renderers :
        (calls[c].pc = "done" /\ calls[c].after /\ ~ returned.overlap)
            => /\ calls[c].ret.data = returned.bytes.data
               /\ ~ calls[c].ran

-----------------------------------------------------------------------------
(* cachedGitHubClient.LastHash and cachedGitHubClient.Contents *)

\* c.LastHash(ctx): the sentinel when the cache exists, c.client.LastHash(ctx)
\* otherwise
CachedLastHash ==
    /\ last.n < MaxCacheCalls
    /\ IF cacheExists(disk)
       THEN /\ last' = [last EXCEPT !.op = "LastHash", !.n = @ + 1,
                                    !.existed = disk.exists, !.err = FALSE,
                                    !.liveErr = FALSE,
                                    !.gotCleanup = FALSE,
                                    !.returnedCleanup = FALSE,
                                    !.calledCleanup = FALSE,
                                    !.hash = CachedHash, !.liveCalls = 0]
            /\ UNCHANGED liveCalls
       ELSE /\ liveCalls' = [liveCalls EXCEPT !.lastHash = @ + 1]
            /\ \E ok \in BOOLEAN :
                  last' = [last EXCEPT
                              !.op = "LastHash", !.n = @ + 1,
                              !.existed = disk.exists, !.err = ~ ok,
                              !.liveErr = ~ ok,
                              !.gotCleanup = FALSE,
                              !.returnedCleanup = FALSE,
                              !.calledCleanup = FALSE,
                              !.hash = IF ok THEN RemoteStates[live.state].hash
                                       ELSE <<>>,
                              !.liveCalls = 1]
    /\ UNCHANGED <<disk, live, siteVars, docVars>>

\* c.Contents(ctx): the view of the cache when it exists; otherwise
\* c.client.Contents(ctx), and the walk that copies the tree below c.destRoot,
\* which may fail at the root directory (failAt 0) or at a file, whose copy may
\* have begun. The cleanup of the wrapped client is returned with the tree
\* (return ghFS, cleanup, nil); on an error of the walk the call returns
\* nil, nil, err and does not call it; with the cache it returns func() {}
CachedContents ==
    /\ last.n < MaxCacheCalls
    /\ IF cacheExists(disk)
       THEN /\ last' = [last EXCEPT !.op = "Contents", !.n = @ + 1,
                                    !.existed = disk.exists, !.err = FALSE,
                                    !.liveErr = FALSE,
                                    !.gotCleanup = FALSE,
                                    !.returnedCleanup = FALSE,
                                    !.calledCleanup = FALSE,
                                    !.view = CacheView(disk), !.liveCalls = 0]
            /\ UNCHANGED <<disk, liveCalls>>
       ELSE /\ liveCalls' = [liveCalls EXCEPT !.contents = @ + 1]
            /\ LET tree == RemoteStates[live.state].tree IN
               \/ /\ last' = [last EXCEPT !.op = "Contents", !.n = @ + 1,
                                          !.existed = disk.exists, !.err = TRUE,
                                          !.liveErr = TRUE,
                                          !.gotCleanup = FALSE,
                                          !.returnedCleanup = FALSE,
                                          !.calledCleanup = FALSE,
                                          !.view = {}, !.liveCalls = 1]
                  /\ UNCHANGED disk
               \/ /\ \E failAt \in 0..Len(tree), begun \in BOOLEAN :
                        disk' =
                           IF failAt = 0 THEN disk
                           ELSE [exists |-> TRUE,
                                 files |-> Persisted(tree, failAt - 1) \cup
                                    IF begun
                                    THEN {File(DestPath(tree[failAt].path), <<>>)}
                                    ELSE {}]
                  /\ last' = [last EXCEPT !.op = "Contents", !.n = @ + 1,
                                          !.existed = disk.exists, !.err = TRUE,
                                          !.liveErr = FALSE,
                                          !.gotCleanup = TRUE,
                                          !.returnedCleanup = FALSE,
                                          !.calledCleanup = FALSE,
                                          !.view = {}, !.liveCalls = 1]
               \/ /\ disk' = [exists |-> TRUE,
                              files |-> Persisted(tree, Len(tree))]
                  /\ last' = [last EXCEPT !.op = "Contents", !.n = @ + 1,
                                          !.existed = disk.exists, !.err = FALSE,
                                          !.liveErr = FALSE,
                                          !.gotCleanup = TRUE,
                                          !.returnedCleanup = TRUE,
                                          !.calledCleanup = FALSE,
                                          !.view = FilesOf(tree), !.liveCalls = 1,
                                          !.pull = tree, !.pulled = TRUE]
    /\ UNCHANGED <<live, siteVars, docVars>>

\* The remote project changes
LiveChange ==
    /\ live.changes < MaxChanges
    /\ \E n \in Remotes \ {live.state} :
          live' = [state |-> n, changes |-> live.changes + 1]
    /\ UNCHANGED <<disk, liveCalls, last, siteVars, docVars>>

\* The cache directory a run finds: none, an empty one, or one that holds an
\* earlier pull and another file
InitCache ==
    /\ SiteIdle
    /\ DocIdle
    /\ disk \in { NoDisk,
                  [exists |-> TRUE, files |-> {}],
                  [exists |-> TRUE,
                   files |-> Persisted(TreeNoIndex, Len(TreeNoIndex)) \cup
                             {File(DestPath(<<"notes", ".txt">>), <<"n">>)}] }
    /\ \E n \in Remotes : live = [state |-> n, changes |-> 0]
    /\ liveCalls = [lastHash |-> 0, contents |-> 0]
    /\ last = NoLast

NextCache ==
    \/ CachedLastHash
    \/ CachedContents
    \/ LiveChange

SpecCache == InitCache /\ [][NextCache]_vars

\* C10: a call of the decorator that finds the cache directory, whatever it
\* holds, calls nothing of the wrapped client, and LastHash returns
\* "cached-hash" and Contents the files below the directory; a call that does
\* not find it calls the wrapped client; a Contents that pulled and returned
\* nil has written every file of the tree below the directory; and a later
\* Contents returns exactly the files of that pull.
C10_CacheShortCircuits ==
    /\ (last.op # "none" /\ last.existed)
          => /\ last.liveCalls = 0
             /\ ~ last.err
             /\ last.op = "LastHash" => last.hash = CachedHash
             /\ last.op = "Contents" => last.view = CacheView(disk)
    /\ (last.op # "none" /\ ~ last.existed) => last.liveCalls = 1
    /\ (last.op = "Contents" /\ ~ last.existed /\ ~ last.err)
          => /\ cacheExists(disk)
             /\ CacheView(disk) = FilesOf(last.pull)
             /\ last.view = FilesOf(last.pull)
    /\ (last.op = "Contents" /\ last.existed /\ last.pulled)
          => last.view = FilesOf(last.pull)

\* A Contents that found the cache of an earlier pull of this run, after the
\* remote project changed
C10_Witness ==
    /\ last.op = "Contents" /\ last.existed /\ last.pulled
    /\ last.view # {}
    /\ RemoteStates[live.state].tree # last.pull

-----------------------------------------------------------------------------
(* Properties of the sync engine: which slot is synced, and when *)

\* C11: the slot a Sync of the refresh loop builds is never s.activeRepo, from
\* the tick to the return of Sync; the first Sync, of the active slot A, runs
\* on a slot that has no index yet while no server and no request exists. So a
\* slot that holds a snapshot is never written while it is active.
C11_SyncedSlotNotActive ==
    sync.pc # "none"
        => IF sync.caller = "loop"
           THEN sync.slot # activeRepo
           ELSE /\ sync.slot = "A" /\ sync.before = newRepo
                /\ server = "off" /\ req.pc = "idle" /\ count.requests = 0

\* The refresh loop rebuilds a slot that holds a snapshot while a request
\* resolves in the other, active one
C11_Witness ==
    /\ sync.caller = "loop" /\ sync.pc = "index" /\ sync.i > 1
    /\ ~ sync.before.index.isNil
    /\ req.pc = "read" /\ req.repo = activeRepo

\* C12: s.activeRepo changes in one kind of step only: the refresh loop, right
\* after a Sync it started on the inactive slot has returned nil, assigns that
\* slot; no other step of the program changes it.
C12_OnlyLoopFlipsAfterSuccess ==
    [][activeRepo' # activeRepo
          => /\ loopPc = "sync" /\ loopPc' = "wait"
             /\ sync.pc = "ret" /\ sync.caller = "loop" /\ ~ sync.err
             /\ sync.slot # activeRepo
             /\ activeRepo' = sync.slot
             /\ sync' = NoSync]_vars

\* The loop has switched the active slot to B and back to A
C12_Witness ==
    /\ activeRepo = "A" /\ hist.attempt = "ok" /\ count.ticks = 2
    /\ hist.tickActive = "B"

\* C13: when a Sync that pulled a tree returns nil, the hash recorded in the
\* synced slot is the hash LastHash returned in that call.
C13_RecordedHashIsPulledHash ==
    (sync.pc = "ret" /\ sync.pulled /\ ~ sync.err)
        => repos[sync.slot].hash = sync.hash

\* C14: when a Sync that pulled a tree returns nil, the paths at which the
\* synced slot holds a document are exactly the routed paths of the .md files
\* of that tree (the files routed as the index apart): no document of an
\* earlier pull is left in the slot.
C14_SnapshotIsOfThisPullOnly ==
    (sync.pc = "ret" /\ sync.pulled /\ ~ sync.err)
        => DOMAIN repos[sync.slot].documents
             = { RoutedPath(sync.tree[i]) :
                   i \in DocumentFiles(sync.tree) \ IndexFiles(sync.tree) }

\* C15: a Sync whose Contents call succeeded has called the cleanup function
\* exactly once when it returns, with or without an error of the extraction
\* or of the indexing, and not before; a Sync that returns because LastHash
\* failed, the hash is unchanged or Contents failed has called no cleanup.
C15_CleanupOncePerPull ==
    /\ sync.pc \in {"lasthash", "contents"} => (~ sync.pulled /\ sync.cleanups = 0)
    /\ sync.pc \in {"extract", "index"} => (sync.pulled /\ sync.cleanups = 0)
    /\ sync.pc = "ret" => sync.cleanups = (IF sync.pulled THEN 1 ELSE 0)

\* A Sync returns an error of the extraction after Contents succeeded
C15_Witness ==
    /\ sync.pc = "ret" /\ sync.pulled /\ sync.err /\ sync.i = 0
    /\ sync.contentsCalls = 1 /\ sync.cleanups = 1

\* C16: at most one call of repo.Sync is running at any time (hist.running
\* counts the calls begun and not yet returned): the loop exists only after
\* the first Sync has returned, and it takes a tick only when the Sync it
\* started at the tick before has returned.
C16_OneSyncAtATime ==
    /\ hist.running <= 1
    /\ (hist.running = 1) <=> (sync.pc # "none")
    /\ loopPc # "off" => (hist.initSync # "pending" /\ servePc \notin {"start", "sync"})
    /\ (sync.pc # "none" /\ sync.caller = "serve") => loopPc = "off"
    /\ (sync.pc # "none" /\ sync.caller = "loop") => loopPc = "sync"

\* The loop is running its second Sync, after the first Sync of Serve and the
\* Sync of the first tick have returned
C16_Witness ==
    /\ hist.running = 1 /\ sync.caller = "loop" /\ sync.pc = "contents"
    /\ count.ticks = 2 /\ hist.initSync = "ok"

-----------------------------------------------------------------------------
(* Properties of the caching decorator's errors *)

\* C17: every error that LastHash or Contents of the caching decorator returns
\* is an error that the wrapped client returned in that call: when the wrapped
\* call succeeds, or is not made, the decorator's call returns no error.
C17_ErrorsComeFromLiveClient ==
    (last.op # "none" /\ last.err) => (last.liveCalls = 1 /\ last.liveErr)

\* C17, amended: an error returned by the decorator's LastHash is the error of
\* the wrapped client's LastHash; an error returned by its Contents is either
\* the error of the wrapped client's Contents or, after that call succeeded, an
\* error of the walk that copies the pulled tree below c.destRoot; an error of
\* the wrapped client is always returned; and a call made while c.destRoot
\* exists returns no error.
C17_ErrorsAreLiveOrPersist ==
    last.op # "none" =>
        /\ last.liveErr => (last.err /\ last.liveCalls = 1)
        /\ last.op = "LastHash" => (last.err <=> last.liveErr)
        /\ (last.op = "Contents" /\ last.err /\ ~ last.liveErr)
              => (last.liveCalls = 1 /\ ~ last.existed /\ ~ last.pulled)
        /\ last.existed => (~ last.err /\ last.liveCalls = 0)

\* Contents returned an error of the copy after the wrapped client's Contents
\* succeeded and a part of the tree was written
C17_Witness ==
    /\ last.op = "Contents" /\ last.err /\ ~ last.liveErr
    /\ last.liveCalls = 1 /\ disk.exists /\ disk.files # {}

-----------------------------------------------------------------------------
(* Cancellation *)

\* The steps of the program itself, which the Go scheduler runs when they can
\* run: a goroutine that can go on does go on, a call of the source returns
\* (the HTTP client has a timeout), and a select whose only ready case is
\* ctx.Done() takes it. Ticks, the interrupt signal, changes of the remote
\* project and requests are the environment's and need not happen.
Fairness ==
    /\ WF_vars(ServeStart)
    /\ WF_vars(SyncLastHash)
    /\ WF_vars(SyncContents)
    /\ WF_vars(SyncExtract)
    /\ WF_vars(SyncIndexStep)
    /\ WF_vars(SyncIndexCheck)
    /\ WF_vars(ServeAfterSync)
    /\ WF_vars(LoopCancel)
    /\ WF_vars(LoopAfterSync)
    /\ WF_vars(ServerShutdown)
    /\ WF_vars(ServeReturn)

\* Serve without requests: no step of Serve or of syncRepos reads what
\* ServeHTTP does, and Shutdown makes ListenAndServe return whatever requests
\* are in flight
NextLive ==
    \/ ServeStart
    \/ SyncLastHash
    \/ SyncContents
    \/ SyncExtract
    \/ SyncIndexStep
    \/ SyncIndexCheck
    \/ ServeAfterSync
    \/ Tick
    \/ LoopCancel
    \/ LoopAfterSync
    \/ Cancel
    \/ ServerShutdown
    \/ ServeReturn
    \/ RemoteChange

SpecLive == Init /\ [][NextLive]_vars /\ Fairness

\* C18: once the context is cancelled, the refresh loop starts no Sync and
\* s.activeRepo does not change any more.
C18_CancelStopsLoop ==
    [][cancelled => /\ activeRepo' = activeRepo
                    /\ ~ (loopPc = "wait" /\ loopPc' = "sync")]_vars

\* C18, amended: once the context is cancelled, Serve eventually returns, with
\* the loop returned and the server shut down or failed; once the loop has
\* returned it starts no Sync and s.activeRepo does not change any more; and
\* after the cancellation s.activeRepo still changes only by the loop's
\* assignment after a Sync that returned nil.
C18_CancelEndsServe ==
    /\ cancelled ~> (servePc \in {"returned", "failed"})
    /\ [](servePc = "returned" => (loopPc = "returned" /\ server \in {"closed", "failed"}))
    /\ [][loopPc = "returned"
             => (activeRepo' = activeRepo /\ loopPc' = "returned" /\ sync' = sync)]_vars

\* After the cancellation a Sync that was running returned nil, the loop set
\* s.activeRepo, then returned, the server was shut down and Serve returned
C18_Witness ==
    /\ cancelled /\ servePc = "returned" /\ server = "closed"
    /\ activeRepo = "B" /\ hist.attempt = "ok" /\ ~ loopErr

-----------------------------------------------------------------------------
(* Duplicate routed paths *)

\* The last of the first n documents, in the order of the walk, that has the
\* path of the k-th
LastVisited(docs, n, k) ==
    CHOOSE l \in 1..n :
        /\ docs[l].path = docs[k].path
        /\ \A m \in 1..n : docs[m].path = docs[k].path => m <= l

\* C19: at every point of the indexing loop and at its end, for each document
\* visited so far the slot holds, at its routed path, the document visited
\* last among those visited so far with that path; the same holds of the index
\* document among the documents whose logical path is README.md.
C19_LastVisitedWins ==
    (sync.pc \in {"index", "ret"} /\ sync.i >= 1)
        => LET r == repos[sync.slot]
               n == sync.i - 1
           IN
           \A k \in 1..n :
              LET d == sync.docs[LastVisited(sync.docs, n, k)] IN
              IF sync.docs[k].path = README
              THEN Index(r) = d
              ELSE Document(r, TrimSuffix(sync.docs[k].path, MD)) = d

\* A Sync returned nil after it indexed two documents with the logical path
\* x.md and two with README.md: the slot holds the second of each
C19_Witness ==
    /\ sync.pc = "ret" /\ ~ sync.err /\ sync.tree = TreeTwoRoots
    /\ sync.i = 5
    /\ Document(repos[sync.slot], <<"x">>).contents = <<"X2">>
    /\ Index(repos[sync.slot]).contents = <<"Two">>

-----------------------------------------------------------------------------
(* Concurrent Render calls *)

\* C20: whatever the interleaving of the Render calls on a document, d.cache,
\* when no store of it is under way, is nil or holds the bytes of the
\* transformation of the contents, so it never changes once set; and every
\* call returns those same bytes.
C20_RenderStable ==
    LET bytes == MarkdownRender(doc.contents).data IN
    /\ (Cached(doc) /\ \A c \in Renderers : calls[c].pc # "storeLen")
          => doc.cache.data = bytes
    /\ \A c \in Renderers : calls[c].pc = "done" => calls[c].ret.data = bytes
    /\ returned.n > 0 => returned.bytes.data = bytes

-----------------------------------------------------------------------------
(* The active slot while the server is up *)

\* C21: whenever the server is up, so that requests can be served, the slot
\* that is s.activeRepo has been built: its index document is not nil,
\* whatever hash LastHash returned, the empty string included.
C21_ActiveSlotReady ==
    (servePc = "serving" /\ server = "up")
        => ~ Index(repos[activeRepo]).isNil

-----------------------------------------------------------------------------
(* The cleanup function of the wrapped client *)

\* C22: when a Contents call of the caching decorator got a cleanup function
\* from a successful Contents call of the wrapped client, it has returned
\* that function to its caller or called it itself when it returns, also when
\* the copy of the pulled tree to the cache directory fails.
C22_CleanupReturnedOrCalled ==
    (last.op = "Contents" /\ last.gotCleanup)
        => (last.returnedCleanup \/ last.calledCleanup)

=============================================================================
